---- MODULE Spec2Model ----
(***************************************************************************)
(* The Torque ingest demultiplexer of                                      *)
(* homeassistant/components/torque/sensor.py: the query of one GET request *)
(* is walked key by key, names and units are gathered per metric ID,       *)
(* values are pushed into the entities SensorTable already holds, and an   *)
(* entity is created for every named ID SensorTable does not hold yet.     *)
(*                                                                         *)
(* Texts (keys, names, units, values) are sequences of one-character       *)
(* strings, so that the regular expressions, int(value, 16) and            *)
(* str.replace are computed on the characters as Python computes them.     *)
(* An optional value is a sequence of length at most one: None is << >>    *)
(* and x is << x >>.                                                       *)
(***************************************************************************)
EXTENDS Integers, Sequences, FiniteSets, TLC

(* ------------------------------------------------------------ bounds --- *)

\* The longest query (number of key/value pairs) a request carries.
MaxKeys == 3

\* Concurrent handling: requests in flight at once, and the length of each.
MaxTasks == 2
MaxConcKeys == 1

(* ----------------------------------------------------------- options --- *)

None == << >>
Some(x) == << x >>

(* ------------------------------------------------- const.py, regexes --- *)

SENSOR_EMAIL_FIELD == <<"e", "m", "l">>

\* The literal prefixes of SENSOR_NAME_KEY, SENSOR_UNIT_KEY, SENSOR_VALUE_KEY;
\* each pattern is the prefix followed by the group (\w+).
NAME_KEY == <<"u", "s", "e", "r", "F", "u", "l", "l", "N", "a", "m", "e">>
UNIT_KEY == <<"u", "s", "e", "r", "U", "n", "i", "t">>
VALUE_KEY == <<"k">>

\* The eight characters of the Python literal "\\xC2\\xB0".
ESCAPED_DEGREE == <<"\\", "x", "C", "2", "\\", "x", "B", "0">>

\* homeassistant.const.DEGREE, one character.
DEGREE == <<"deg">>

EMPTY_QUERY_TEXT == "No Torque Query Parameters"
OK_TEXT == "OK!"

(* -------------------------------------------------------- characters --- *)

DecDigits == <<"0", "1", "2", "3", "4", "5", "6", "7", "8", "9">>
LowerHex == <<"a", "b", "c", "d", "e", "f">>
UpperHex == <<"A", "B", "C", "D", "E", "F">>

Range(s) == {s[i] : i \in 1..Len(s)}

IndexOf(s, c) == CHOOSE i \in 1..Len(s) : s[i] = c

OtherLetters ==
    {"g", "h", "i", "j", "k", "l", "m", "n", "o", "p", "q", "r", "s", "t",
     "u", "v", "w", "x", "y", "z",
     "G", "H", "I", "J", "K", "L", "M", "N", "O", "P", "Q", "R", "S", "T",
     "U", "V", "W", "X", "Y", "Z"}

HexChars == Range(DecDigits) \cup Range(LowerHex) \cup Range(UpperHex)

\* \w of the re module, on the ASCII characters.
WordChars == HexChars \cup OtherLetters \cup {"_"}

IsWord(c) == c \in WordChars

IsHexDigit(c) == c \in HexChars

HexDigitValue(c) ==
    IF c \in Range(DecDigits) THEN IndexOf(DecDigits, c) - 1
    ELSE IF c \in Range(LowerHex) THEN IndexOf(LowerHex, c) + 9
    ELSE IndexOf(UpperHex, c) + 9

(* ---------------------------------------------------------- re.match --- *)

\* The longest run of \w characters s starts with (the greedy group).
WordRun(s) ==
    SubSeq(s, 1, Cardinality({i \in 1..Len(s) : \A j \in 1..i : IsWord(s[j])}))

\* pattern.match(key) for the pattern prefix(\w+): anchored at the start of
\* the key, not at its end. None when there is no match, else group(1).
Match(prefix, key) ==
    IF /\ Len(key) > Len(prefix)
       /\ SubSeq(key, 1, Len(prefix)) = prefix
       /\ IsWord(key[Len(prefix) + 1])
    THEN Some(WordRun(SubSeq(key, Len(prefix) + 1, Len(key))))
    ELSE None

(* ------------------------------------------------------- convert_pid --- *)

HasHexPrefix(v) == Len(v) >= 2 /\ v[1] = "0" /\ v[2] \in {"x", "X"}

\* What int(v, 16) reads its digits from: an optional 0x / 0X is dropped, and
\* one underscore may follow that prefix.
HexDigits(v) ==
    LET b == IF HasHexPrefix(v) THEN SubSeq(v, 3, Len(v)) ELSE v
    IN  IF HasHexPrefix(v) /\ Len(b) >= 1 /\ b[1] = "_" THEN Tail(b) ELSE b

\* Digits with single underscores between them.
WellFormedDigits(d) ==
    /\ Len(d) >= 1
    /\ \A i \in 1..Len(d) : IsHexDigit(d[i]) \/ d[i] = "_"
    /\ d[1] # "_"
    /\ d[Len(d)] # "_"
    /\ \A i \in 1..(Len(d) - 1) : ~(d[i] = "_" /\ d[i + 1] = "_")

RECURSIVE HexValue(_, _)
HexValue(d, acc) ==
    IF d = << >> THEN acc
    ELSE IF Head(d) = "_" THEN HexValue(Tail(d), acc)
    ELSE HexValue(Tail(d), 16 * acc + HexDigitValue(Head(d)))

\* int(value, 16): Some(n), or None when it raises ValueError.
convert_pid(value) ==
    IF WellFormedDigits(HexDigits(value))
    THEN Some(HexValue(HexDigits(value), 0))
    ELSE None

(* ------------------------------------------- str, dict, MultiDict --- *)

\* old in s
Contains(s, old) ==
    \E i \in 1..(Len(s) - Len(old) + 1) : SubSeq(s, i, i + Len(old) - 1) = old

\* s.replace(old, new): every occurrence, left to right, without overlap.
RECURSIVE Replace(_, _, _)
Replace(s, old, new) ==
    IF Len(s) < Len(old) THEN s
    ELSE IF SubSeq(s, 1, Len(old)) = old
         THEN new \o Replace(SubSeq(s, Len(old) + 1, Len(s)), old, new)
         ELSE <<Head(s)>> \o Replace(Tail(s), old, new)

\* A dict is the sequence of its <<key, value>> items in insertion order.
DictHas(d, k) == \E i \in 1..Len(d) : d[i][1] = k

DictGet(d, k) == d[CHOOSE i \in 1..Len(d) : d[i][1] = k][2]

\* d[k] = v: a key already present keeps its place.
DictSet(d, k, v) ==
    IF DictHas(d, k)
    THEN [i \in 1..Len(d) |-> IF d[i][1] = k THEN <<k, v>> ELSE d[i]]
    ELSE Append(d, <<k, v>>)

\* d.get(k): None when absent.
DictGetOpt(d, k) == IF DictHas(d, k) THEN Some(DictGet(d, k)) ELSE None

\* request.query is a MultiDict: the sequence of the query's <<key, value>>
\* pairs. Iterating it yields every pair's key, repeated keys included.
QueryHas(data, key) == \E i \in 1..Len(data) : data[i][1] = key

\* data[key]: the value of the FIRST pair with that key.
QueryGet(data, key) ==
    data[CHOOSE i \in 1..Len(data) :
            data[i][1] = key /\ \A j \in 1..(i - 1) : data[j][1] # key][2]

(* ------------------------------------------------------ TorqueSensor --- *)

\* The per-install unique id (config_entry.unique_id).
UNIQUE_ID == <<"i", "d">>

\* TorqueSensor.__init__; oid is the identity of the object constructed.
TorqueSensor(name, unit, unique_id, oid) ==
    [oid |-> oid,
     name |-> name,
     unit |-> unit,
     unique_id |-> unique_id \o <<"_">> \o name,
     state |-> None]

\* Mutant: the value is stored and the write-state notification forgotten.
async_on_update_NoWrite(sensor, value) ==
    [entity |-> [sensor EXCEPT !.state = Some(value)],
     writes |-> << >>]

\* TorqueSensor.async_on_update: the entity afterwards, and the objects whose
\* async_write_ha_state was called.
async_on_update(sensor, value) ==
    [entity |-> [sensor EXCEPT !.state = Some(value)],
     writes |-> <<sensor.oid>>]

(* ------------------------------------------------------------ inputs --- *)

Spd == <<"S", "p", "d">>
RPM == <<"R", "P", "M">>
DegC == ESCAPED_DEGREE \o <<"C">>
V55 == <<"5", "5">>
V60 == <<"6", "0">>
Me == <<"m", "e">>
You == <<"y", "o", "u">>

\* The query pairs requests are built from. The suffixes A and 0A decode to
\* the same metric ID; the suffix ZZ does not decode; kind matches the value
\* pattern with the suffix ind; the key kA comes with two values.
Fields ==
    {<<NAME_KEY \o <<"A">>, Spd>>,
     <<NAME_KEY \o <<"0", "A">>, RPM>>,
     <<NAME_KEY \o <<"B">>, Spd>>,
     <<NAME_KEY \o <<"Z", "Z">>, RPM>>,
     <<UNIT_KEY \o <<"A">>, DegC>>,
     <<VALUE_KEY \o <<"A">>, V55>>,
     <<VALUE_KEY \o <<"A">>, V60>>,
     <<VALUE_KEY \o <<"0", "A">>, V60>>,
     <<VALUE_KEY \o <<"i", "n", "d">>, <<"x">>>>,
     <<SENSOR_EMAIL_FIELD, Me>>,
     <<SENSOR_EMAIL_FIELD, You>>}

ConcFields ==
    {<<NAME_KEY \o <<"A">>, Spd>>,
     <<NAME_KEY \o <<"0", "A">>, RPM>>,
     <<NAME_KEY \o <<"B">>, Spd>>,
     <<VALUE_KEY \o <<"A">>, V55>>}

SeqsUpTo(S, n) == UNION {[1..k -> S] : k \in 0..n}

Requests == SeqsUpTo(Fields, MaxKeys)
ConcRequests == SeqsUpTo(ConcFields, MaxConcKeys)

\* The configured sender filter: config_entry.data.get(CONF_EMAIL).
Emails == {None, Some(Me)}

(* ------------------------------------------------ matching, per key --- *)

\* Every key a query of the model can hold.
Keys == {f[1] : f \in Fields \cup ConcFields}

\* What the three matches and convert_pid give for each key, computed once:
\* pattern is the first of "name", "unit", "value" whose regular expression
\* matches the key ("" when none does), pid is convert_pid of its group.
Classified ==
    [key \in Keys |->
        LET is_name == Match(NAME_KEY, key)
            is_unit == Match(UNIT_KEY, key)
            is_value == Match(VALUE_KEY, key)
        IN  IF is_name # None
            THEN [pattern |-> "name", pid |-> convert_pid(is_name[1])]
            ELSE IF is_unit # None
            THEN [pattern |-> "unit", pid |-> convert_pid(is_unit[1])]
            ELSE IF is_value # None
            THEN [pattern |-> "value", pid |-> convert_pid(is_value[1])]
            ELSE [pattern |-> "", pid |-> None]]

(* ------------------------------------------- _addEntitiesFromRequest --- *)

\* Mutant: a test an empty query does not meet (request.query is None).
QueryEmpty_Never(data) == FALSE

\* if not request.query
QueryEmpty(data) == Len(data) = 0

\* Mutant: the unit text is stored as sent.
NormalizeUnit_Raw(temp_unit) == temp_unit

\* The unit text stored for a unit key.
NormalizeUnit(temp_unit) ==
    IF Contains(temp_unit, ESCAPED_DEGREE)
    THEN Replace(temp_unit, ESCAPED_DEGREE, DEGREE)
    ELSE temp_unit

\* The loop state after sensors[pid].async_on_update(...) gave u.
Updated(st, pid, u) ==
    [st EXCEPT !.sensors[pid] = u.entity, !.written = @ \o u.writes]

\* One pass of the body of "for key in data". st holds the names and units
\* dicts, the sensors table, the write-state calls made so far and the
\* exception raised, if any.
ProcessKey(st, data, key) ==
    LET c == Classified[key]
        pid == c.pid
    IN  IF c.pattern = "name"
        THEN IF pid = None THEN [st EXCEPT !.exc = "ValueError"]
             ELSE [st EXCEPT !.names = DictSet(@, pid[1], QueryGet(data, key))]
        ELSE IF c.pattern = "unit"
        THEN IF pid = None THEN [st EXCEPT !.exc = "ValueError"]
             ELSE [st EXCEPT !.units =
                      DictSet(@, pid[1], NormalizeUnit(QueryGet(data, key)))]
        ELSE IF c.pattern = "value"
        THEN IF pid = None THEN [st EXCEPT !.exc = "ValueError"]
             ELSE IF pid[1] \in DOMAIN st.sensors
             THEN Updated(st, pid[1],
                          async_on_update(st.sensors[pid[1]], QueryGet(data, key)))
             ELSE st
        ELSE st

\* Mutant: a key that fails to decode is skipped and the loop goes on.
RECURSIVE KeyLoop_SkipBad(_, _, _)
KeyLoop_SkipBad(st, data, i) ==
    IF i > Len(data) THEN st
    ELSE LET n == ProcessKey(st, data, data[i][1])
         IN  KeyLoop_SkipBad(IF n.exc # "" THEN st ELSE n, data, i + 1)

\* for key in data: from pair i on; an exception ends the loop.
RECURSIVE KeyLoop(_, _, _)
KeyLoop(st, data, i) ==
    IF i > Len(data) \/ st.exc # "" THEN st
    ELSE KeyLoop(ProcessKey(st, data, data[i][1]), data, i + 1)

\* Mutant: the test that the ID is absent from the table is missing.
NotInSensors_Always(pid, sensors) == TRUE

\* if pid not in sensors
NotInSensors(pid, sensors) == pid \notin DOMAIN sensors

\* Mutant: the whole table is handed over, list(sensors.values()).
AddEntitiesBatch_All(sensors, pid) ==
    [i \in 1..Cardinality(DOMAIN sensors) |-> i]

\* The batch handed to add_entities for the entity just stored under pid.
AddEntitiesBatch(sensors, pid) == <<sensors[pid].oid>>

\* sensors[pid] = TorqueSensor(...) and the add_entities call for it. cr holds
\* the sensors table and the add_entities calls scheduled so far, each with
\* the ID it was made for.
StoreSensor(cr, pid, name, units) ==
    LET s == (pid :> TorqueSensor(name, DictGetOpt(units, pid), UNIQUE_ID,
                                  Len(cr.added) + 1))
             @@ cr.sensors
    IN  [sensors |-> s,
         added |-> Append(cr.added,
                          [pid |-> pid, batch |-> AddEntitiesBatch(s, pid)])]

\* for pid, name in names.items(): from item i on.
RECURSIVE CreateLoop(_, _, _, _)
CreateLoop(cr, names, units, i) ==
    IF i > Len(names) THEN cr
    ELSE IF NotInSensors(names[i][1], cr.sensors)
    THEN CreateLoop(StoreSensor(cr, names[i][1], names[i][2], units),
                    names, units, i + 1)
    ELSE CreateLoop(cr, names, units, i + 1)

\* The body ends before the key loop, raising exc or returning ret.
EarlyExit(sensors, exc, ret) ==
    [exit |-> TRUE, sensors |-> sensors, written |-> << >>, names |-> << >>,
     units |-> << >>, exc |-> exc, ret |-> ret]

\* The body after the key loop left st: over if a key raised.
AfterKeyLoop(st) ==
    [exit |-> st.exc # "", sensors |-> st.sensors, written |-> st.written,
     names |-> st.names, units |-> st.units, exc |-> st.exc, ret |-> None]

\* The body up to the creation loop: the two checks and the key loop. exit
\* says that the body ended there, with exc raised or ret returned.
UpToCreation(email, sensors, data) ==
    IF QueryEmpty(data)
    THEN EarlyExit(sensors, "", Some(EMPTY_QUERY_TEXT))
    ELSE IF email # None /\ ~QueryHas(data, SENSOR_EMAIL_FIELD)
    THEN EarlyExit(sensors, "KeyError", None)
    ELSE IF email # None /\ email[1] # QueryGet(data, SENSOR_EMAIL_FIELD)
    THEN EarlyExit(sensors, "", None)
    ELSE AfterKeyLoop(KeyLoop([names |-> << >>, units |-> << >>,
                               sensors |-> sensors, written |-> << >>,
                               exc |-> ""], data, 1))

\* The body after the creation loop left cr: the acknowledgement.
Acknowledged(u, cr) ==
    [sensors |-> cr.sensors, added |-> cr.added, written |-> u.written,
     exc |-> "", ret |-> Some(OK_TEXT)]

\* The body from the creation loop on, u being what came before.
FromCreation(u, added) ==
    IF u.exit
    THEN [sensors |-> u.sensors, added |-> added, written |-> u.written,
          exc |-> u.exc, ret |-> u.ret]
    ELSE Acknowledged(u, CreateLoop([sensors |-> u.sensors, added |-> added],
                                    u.names, u.units, 1))

\* One run of the coroutine's body: the sensors table and the add_entities
\* calls afterwards, the write-state calls made, the exception raised ("" for
\* none) and the value returned (None for a bare return or an exception).
addEntitiesFromRequest(email, sensors, added, data) ==
    FromCreation(UpToCreation(email, sensors, data), added)

\* Mutant: the coroutine awaits between the test and the assignment.
AwaitBeforeInsert_Yes == TRUE

\* Whether the coroutine can be suspended between "if pid not in sensors" and
\* "sensors[pid] = ...": the body holds no await, there or anywhere.
AwaitBeforeInsert == FALSE

\* The creation loop as the event loop runs it: from item i on, up to the
\* next point where the coroutine is suspended, or to the end. resumed says
\* that item i passed its test before the suspension.
RECURSIVE CreateSegment(_, _, _, _, _)
CreateSegment(cr, names, units, i, resumed) ==
    LET store == i <= Len(names)
                 /\ (resumed \/ NotInSensors(names[i][1], cr.sensors))
    IN  IF i > Len(names) \/ (store /\ ~resumed /\ AwaitBeforeInsert)
        THEN [sensors |-> cr.sensors, added |-> cr.added, idx |-> i,
              suspended |-> i <= Len(names)]
        ELSE CreateSegment(IF store
                           THEN StoreSensor(cr, names[i][1], names[i][2], units)
                           ELSE cr,
                           names, units, i + 1, FALSE)

(* ------------------------------------------------------------- state --- *)

VARIABLES
    email,      \* the sender filter the view was constructed with
    sensors,    \* SensorTable: metric ID -> entity
    added,      \* the add_entities calls scheduled, in order
    pc,         \* "idle", or "done": the request in hand was handled
    req,        \* the query of the request in hand
    pre,        \* sensors as the request in hand found it
    preAdded,   \* Len(added) as the request in hand found it
    written,    \* the write-state calls made for the request in hand
    outcome,    \* what handling the request raised or returned
    via,        \* "coroutine": the body ran; "view": TorqueReceiveDataView.get
    tasks       \* concurrent handling: the coroutines created, in order

vars == <<email, sensors, added, pc, req, pre, preAdded, written, outcome,
          via, tasks>>

NoOutcome == [exc |-> "", ret |-> None]

\* async_setup_entry: an empty sensors dict, the view registered.
Init ==
    /\ email \in Emails
    /\ sensors = << >>
    /\ added = << >>
    /\ pc = "idle"
    /\ req = << >>
    /\ pre = << >>
    /\ preAdded = 0
    /\ written = << >>
    /\ outcome = NoOutcome
    /\ via = ""
    /\ tasks = << >>

\* What a run o of the coroutine's body leaves behind.
Leaves(o) ==
    /\ sensors' = o.sensors
    /\ added' = o.added
    /\ written' = o.written
    /\ outcome' = [exc |-> o.exc, ret |-> o.ret]

\* A GET request with query r arrives and the coroutine
\* _addEntitiesFromRequest is awaited on it.
RunCoroutine ==
    /\ pc = "idle"
    /\ \E r \in Requests :
        /\ req' = r
        /\ Leaves(addEntitiesFromRequest(email, sensors, added, r))
    /\ pre' = sensors
    /\ preAdded' = Len(added)
    /\ pc' = "done"
    /\ via' = "coroutine"
    /\ UNCHANGED <<email, tasks>>

\* A GET request with query r is delivered to TorqueReceiveDataView.get, a
\* plain (non-async) callback: it calls the async function, which only builds
\* a coroutine object, never awaits it, and returns nothing. The body does
\* not run.
ViewGet ==
    /\ pc = "idle"
    /\ \E r \in Requests : req' = r
    /\ pre' = sensors
    /\ preAdded' = Len(added)
    /\ pc' = "done"
    /\ via' = "view"
    /\ outcome' = [exc |-> "", ret |-> None]
    /\ UNCHANGED <<email, sensors, added, written, tasks>>

\* The request is over: names, units and the request go out of scope.
Finish ==
    /\ pc = "done"
    /\ pc' = "idle"
    /\ req' = << >>
    /\ pre' = sensors
    /\ preAdded' = Len(added)
    /\ written' = << >>
    /\ outcome' = NoOutcome
    /\ via' = ""
    /\ UNCHANGED <<email, sensors, added, tasks>>

Next ==
    \/ RunCoroutine
    \/ ViewGet
    \/ Finish

Spec == Init /\ [][Next]_vars

(* ------------------------------------------------ concurrent handling --- *)

\* A request with query r arrives and its coroutine is created; it has not
\* run yet.
Spawn ==
    /\ Len(tasks) < MaxTasks
    /\ \E r \in ConcRequests :
        tasks' = Append(tasks, [req |-> r, status |-> "ready",
                                outcome |-> NoOutcome, names |-> << >>,
                                units |-> << >>, idx |-> 0])
    /\ UNCHANGED <<email, sensors, added, pc, req, pre, preAdded, written,
                   outcome, via>>

\* The coroutine returned ret or raised exc.
Finished(t, exc, ret) ==
    [req |-> t.req, status |-> "done", outcome |-> [exc |-> exc, ret |-> ret],
     names |-> << >>, units |-> << >>, idx |-> 0]

\* Where coroutine t stands when the event loop runs it: at its start, it
\* runs the checks and the key loop; suspended, it is in the creation loop.
TaskEntry(t, filter, table) ==
    IF t.status = "ready"
    THEN UpToCreation(filter, table, t.req)
    ELSE [exit |-> FALSE, sensors |-> table, names |-> t.names,
          units |-> t.units]

\* The coroutine after the segment g of its creation loop.
AfterSegment(t, u, g) ==
    [sensors |-> g.sensors,
     added |-> g.added,
     task |-> IF g.suspended
              THEN [t EXCEPT !.status = "suspended", !.names = u.names,
                             !.units = u.units, !.idx = g.idx]
              ELSE Finished(t, "", Some(OK_TEXT))]

\* One run of coroutine t by the event loop, up to its next suspension or its
\* return.
TaskStep(t, u, calls) ==
    IF u.exit
    THEN [sensors |-> u.sensors, added |-> calls,
          task |-> Finished(t, u.exc, u.ret)]
    ELSE AfterSegment(t, u,
             CreateSegment([sensors |-> u.sensors, added |-> calls],
                           u.names, u.units,
                           IF t.status = "ready" THEN 1 ELSE t.idx,
                           t.status = "suspended"))

\* The event loop runs coroutine i, from its start or from where it was
\* suspended: no other coroutine runs in between.
RunTask(i) ==
    /\ tasks[i].status \in {"ready", "suspended"}
    /\ LET r == TaskStep(tasks[i], TaskEntry(tasks[i], email, sensors), added)
       IN  /\ sensors' = r.sensors
           /\ added' = r.added
           /\ tasks' = [tasks EXCEPT ![i] = r.task]
    /\ UNCHANGED <<email, pc, req, pre, preAdded, written, outcome, via>>

ConcNext ==
    \/ Spawn
    \/ \E i \in 1..Len(tasks) : RunTask(i)

SpecConc == Init /\ [][ConcNext]_vars

(* ------------------------------------------- vocabulary of the claims --- *)

\* The key is a name / unit / value key of metric ID p.
IsNameKey(key, p) ==
    Classified[key].pattern = "name" /\ Classified[key].pid = Some(p)

IsUnitKey(key, p) ==
    Classified[key].pattern = "unit" /\ Classified[key].pid = Some(p)

IsValueKey(key, p) ==
    Classified[key].pattern = "value" /\ Classified[key].pid = Some(p)

\* The key matches one of the three patterns and its suffix does not decode.
Malformed(key) ==
    Classified[key].pattern # "" /\ Classified[key].pid = None

\* The metric IDs the keys of query r decode to.
PidsOf(r) ==
    {Classified[r[i][1]].pid[1] :
        i \in {j \in 1..Len(r) : Classified[r[j][1]].pid # None}}

HasNameKey(r, p) == \E i \in 1..Len(r) : IsNameKey(r[i][1], p)
HasUnitKey(r, p) == \E i \in 1..Len(r) : IsUnitKey(r[i][1], p)
HasValueKey(r, p) == \E i \in 1..Len(r) : IsValueKey(r[i][1], p)

\* The greatest index of r whose key satisfies K(key, p).
LastIndex(r, K(_, _), p) ==
    CHOOSE i \in 1..Len(r) :
        K(r[i][1], p) /\ \A j \in (i + 1)..Len(r) : ~K(r[j][1], p)

\* The request in hand was handled by the coroutine's body.
Handled == pc = "done" /\ via = "coroutine"

\* ... and acknowledged.
Accepted == Handled /\ outcome = [exc |-> "", ret |-> Some(OK_TEXT)]

\* The request in hand passes the empty-query check and the sender check.
PassesChecks ==
    /\ Len(req) > 0
    /\ \/ email = None
       \/ /\ QueryHas(req, SENSOR_EMAIL_FIELD)
          /\ QueryGet(req, SENSOR_EMAIL_FIELD) = email[1]

\* The add_entities calls made for ID p among calls from+1 .. Len(added).
CallsFor(p, from) == {k \in (from + 1)..Len(added) : added[k].pid = p}

\* Nothing the integration instance holds differs from the request's start.
NothingChanged ==
    /\ sensors = pre
    /\ Len(added) = preAdded
    /\ written = << >>

(* ---------------------------------------------------------------- C1 --- *)

\* C1 as claimed: after an accepted request that carries a name key, a value
\* key and optionally a unit key for an ID new to SensorTable, the table holds
\* one new entity for the ID, with the name of that name key, the unit text of
\* that unit key (absent without one) and no value.
C1_NewEntityAsSent ==
    Accepted =>
        \A p \in PidsOf(req) : \A i \in 1..Len(req) :
            (IsNameKey(req[i][1], p) /\ HasValueKey(req, p) /\ p \notin DOMAIN pre)
            => /\ p \in DOMAIN sensors
               /\ Cardinality(CallsFor(p, preAdded)) = 1
               /\ sensors[p].name = req[i][2]
               /\ \A j \in 1..Len(req) :
                      IsUnitKey(req[j][1], p) => sensors[p].unit = Some(req[j][2])
               /\ ~HasUnitKey(req, p) => sensors[p].unit = None
               /\ sensors[p].state = None

\* C1 amended: ... the new entity has the name the query gives for the last
\* name key of the ID, the unit the query gives for the last unit key of the
\* ID with every escaped degree sequence replaced by the degree character
\* (absent without a unit key), and no value: the value sent is not applied.
C1_NewEntityLastKeyWins ==
    Accepted =>
        \A p \in PidsOf(req) :
            (HasNameKey(req, p) /\ HasValueKey(req, p) /\ p \notin DOMAIN pre)
            => /\ p \in DOMAIN sensors
               /\ Cardinality(CallsFor(p, preAdded)) = 1
               /\ sensors[p].name =
                      QueryGet(req, req[LastIndex(req, IsNameKey, p)][1])
               /\ HasUnitKey(req, p) =>
                      sensors[p].unit =
                          Some(Replace(QueryGet(req, req[LastIndex(req, IsUnitKey, p)][1]),
                                       ESCAPED_DEGREE, DEGREE))
               /\ ~HasUnitKey(req, p) => sensors[p].unit = None
               /\ sensors[p].state = None

\* C1 witness: an accepted request with a name, a unit and a value key for an
\* ID that was new, the unit carrying the escaped degree sequence.
C1_Witness ==
    /\ Accepted
    /\ \E p \in PidsOf(req) :
        /\ p \notin DOMAIN pre
        /\ HasNameKey(req, p) /\ HasUnitKey(req, p) /\ HasValueKey(req, p)
        /\ sensors[p].unit = Some(DEGREE \o <<"C">>)

(* ---------------------------------------------------------------- C2 --- *)

\* C2: add_entities is called exactly once for each ID that enters
\* SensorTable, each time with a batch of exactly the entity just stored
\* under the ID; calls of the request in hand are for IDs that were not in
\* the table at its start and that a name key of the request decodes to.
C2_AddEntitiesOncePerId ==
    /\ \A k \in 1..Len(added) :
        /\ added[k].pid \in DOMAIN sensors
        /\ added[k].batch = <<sensors[added[k].pid].oid>>
    /\ \A p \in DOMAIN sensors : Cardinality(CallsFor(p, 0)) = 1
    /\ pc = "done" =>
        \A k \in (preAdded + 1)..Len(added) :
            /\ added[k].pid \notin DOMAIN pre
            /\ HasNameKey(req, added[k].pid)

\* C2 witness: an accepted request with two different name keys that decode
\* to one new ID made a single add_entities call.
C2_Witness ==
    /\ Accepted
    /\ \E i, j \in 1..Len(req) : \E p \in PidsOf(req) :
        /\ i # j /\ req[i][1] # req[j][1]
        /\ IsNameKey(req[i][1], p) /\ IsNameKey(req[j][1], p)
        /\ p \notin DOMAIN pre
    /\ Len(added) = preAdded + 1

(* ---------------------------------------------------------------- C3 --- *)

\* C3: no step removes an ID from SensorTable, maps it to another entity, or
\* changes the name, the unit or the stable identifier of its entity.
C3_EntitiesFixed ==
    [][\A p \in DOMAIN sensors :
          /\ p \in DOMAIN sensors'
          /\ sensors'[p].oid = sensors[p].oid
          /\ sensors'[p].name = sensors[p].name
          /\ sensors'[p].unit = sensors[p].unit
          /\ sensors'[p].unique_id = sensors[p].unique_id]_vars

\* C3 witness: an accepted request brought another name and a unit for an ID
\* whose entity existed, with no unit.
C3_Witness ==
    /\ Accepted
    /\ \E p \in DOMAIN pre :
        /\ \E i \in 1..Len(req) :
              IsNameKey(req[i][1], p) /\ req[i][2] # pre[p].name
        /\ HasUnitKey(req, p)
        /\ pre[p].unit = None

(* ---------------------------------------------------------------- C4 --- *)

\* What C4 says of the entities the request carries no value key for, and of
\* a request of value keys only.
C4_Frame ==
    /\ \A p \in DOMAIN pre : ~HasValueKey(req, p) => sensors[p].state = pre[p].state
    /\ (\A i \in 1..Len(req) : \E p \in PidsOf(req) : IsValueKey(req[i][1], p))
       => (DOMAIN sensors = DOMAIN pre /\ Len(added) = preAdded)

\* C4 as claimed: after an accepted request, for every value key whose ID was
\* in SensorTable at the start, the entity's value is the raw value text of
\* that key and its write-state notification was issued; other entities keep
\* their value; a request of value keys only creates nothing.
C4_ValueOfEveryKey ==
    Accepted =>
        /\ \A p \in DOMAIN pre : \A i \in 1..Len(req) :
              IsValueKey(req[i][1], p)
              => /\ sensors[p].state = Some(req[i][2])
                 /\ sensors[p].oid \in Range(written)
        /\ C4_Frame

\* C4 amended: ... for every ID that was in SensorTable at the start and has a
\* value key in the request, the entity's value is the value the query gives
\* for the last value key of that ID (the first value listed under that key)
\* and its write-state notification was issued; the rest as claimed.
C4_ValueOfLastKey ==
    Accepted =>
        /\ \A p \in DOMAIN pre :
              HasValueKey(req, p)
              => /\ sensors[p].state =
                        Some(QueryGet(req, req[LastIndex(req, IsValueKey, p)][1]))
                 /\ sensors[p].oid \in Range(written)
        /\ C4_Frame

\* C4 witness: an accepted request of value keys only changed the value of an
\* entity that had one, while another entity kept its own.
C4_Witness ==
    /\ Accepted
    /\ \A i \in 1..Len(req) : \E p \in DOMAIN pre : IsValueKey(req[i][1], p)
    /\ \E p, q \in DOMAIN pre :
        /\ pre[p].state # None
        /\ sensors[p].state # pre[p].state
        /\ q # p
        /\ sensors[q] = pre[q]

(* ---------------------------------------------------------------- C5 --- *)

\* C5: a GET request delivered to the view runs the demultiplexer to
\* completion, and the view's response is the demultiplexer's result.
C5_ViewRunsDemultiplexer ==
    (pc = "done" /\ via = "view") =>
        LET o == addEntitiesFromRequest(email, pre, SubSeq(added, 1, preAdded), req)
        IN  /\ sensors = o.sensors
            /\ added = o.added
            /\ outcome = [exc |-> o.exc, ret |-> o.ret]

(* ---------------------------------------------------------------- C6 --- *)

\* C6: with a sender filter configured, a non-empty request whose eml field
\* does not equal the filter, or is missing, is dropped silently: no error,
\* no response text, nothing changed.
C6_SenderMismatchSilent ==
    (/\ Handled
     /\ Len(req) > 0
     /\ email # None
     /\ \/ ~QueryHas(req, SENSOR_EMAIL_FIELD)
        \/ QueryGet(req, SENSOR_EMAIL_FIELD) # email[1])
    => (outcome = [exc |-> "", ret |-> None] /\ NothingChanged)

(* ---------------------------------------------------------------- C7 --- *)

\* The index of the first malformed key of the request in hand.
FirstMalformed ==
    CHOOSE i \in 1..Len(req) :
        Malformed(req[i][1]) /\ \A j \in 1..(i - 1) : ~Malformed(req[j][1])

\* C7: a request that passes the empty-query and sender checks and holds a
\* malformed key fails with the decoding error and no acknowledgement; the IDs
\* of SensorTable and the add_entities calls are as before, and an entity
\* differs only in its value, and only if one of its value keys came before
\* the malformed key.
C7_MalformedKeyFails ==
    (Handled /\ PassesChecks /\ \E i \in 1..Len(req) : Malformed(req[i][1]))
    => /\ outcome = [exc |-> "ValueError", ret |-> None]
       /\ DOMAIN sensors = DOMAIN pre
       /\ Len(added) = preAdded
       /\ \A p \in DOMAIN pre :
             sensors[p] # pre[p]
             => /\ sensors[p] = [pre[p] EXCEPT !.state = sensors[p].state]
                /\ \E j \in 1..(FirstMalformed - 1) : IsValueKey(req[j][1], p)

\* C7 witness: a failed request whose value key, before the malformed key,
\* changed an entity, and whose well-formed name key of a new ID created none.
C7_Witness ==
    /\ Handled
    /\ outcome.exc = "ValueError"
    /\ sensors # pre
    /\ \E p \in PidsOf(req) : HasNameKey(req, p) /\ p \notin DOMAIN sensors

(* ---------------------------------------------------------------- C8 --- *)

\* C8: a request with no query parameters gets the empty-query text, with or
\* without a sender filter, and changes nothing.
C8_EmptyQuery ==
    (Handled /\ Len(req) = 0)
    => (outcome = [exc |-> "", ret |-> Some(EMPTY_QUERY_TEXT)] /\ NothingChanged)

\* C8 witness: an empty request handled with a sender filter configured and
\* entities in SensorTable.
C8_Witness ==
    /\ Handled
    /\ Len(req) = 0
    /\ email # None
    /\ DOMAIN sensors # {}
    /\ outcome.ret = Some(EMPTY_QUERY_TEXT)

(* ---------------------------------------------------------------- C9 --- *)

\* C9: however the coroutines of concurrent requests are ordered, every ID in
\* SensorTable has exactly one add_entities call, made with its entity, and
\* two requests that both name an ID, one of them at least acknowledged,
\* leave one entity and one call for it.
C9_NoDuplicateCreation ==
    /\ \A k \in 1..Len(added) :
        /\ added[k].pid \in DOMAIN sensors
        /\ added[k].batch = <<sensors[added[k].pid].oid>>
    /\ \A p \in DOMAIN sensors : Cardinality(CallsFor(p, 0)) = 1
    /\ \A i, j \in 1..Len(tasks) : \A p \in PidsOf(tasks[i].req) :
        (/\ i # j
         /\ tasks[i].status = "done" /\ tasks[j].status = "done"
         /\ HasNameKey(tasks[i].req, p) /\ HasNameKey(tasks[j].req, p)
         /\ tasks[i].outcome.ret = Some(OK_TEXT))
        => (p \in DOMAIN sensors /\ Cardinality(CallsFor(p, 0)) = 1)

\* C9 witness: two coroutines, both acknowledged, whose requests named the
\* same new ID with different names.
C9_Witness ==
    \E i, j \in 1..Len(tasks) : \E p \in DOMAIN sensors :
        /\ i # j
        /\ tasks[i].outcome.ret = Some(OK_TEXT)
        /\ tasks[j].outcome.ret = Some(OK_TEXT)
        /\ HasNameKey(tasks[i].req, p) /\ HasNameKey(tasks[j].req, p)
        /\ tasks[i].req # tasks[j].req

(* --------------------------------------------------------------- C10 --- *)

\* C10: the entities of SensorTable have pairwise distinct stable identifiers.
C10_UniqueIdsDistinct ==
    \A p, q \in DOMAIN sensors :
        p # q => sensors[p].unique_id # sensors[q].unique_id

====
